---------------------------- MODULE Spec2Model ----------------------------
(***************************************************************************)
(* A model of the partition-mapping engine of BTC-Input-Output-Mapper      *)
(* (src/src/partition_analyzer.h and the headers it uses).                 *)
(*                                                                         *)
(* Amounts are doubles in the source.  The model uses small whole numbers  *)
(* of half BTCs, for which double addition, comparison and operator<< are  *)
(* exact, so a sum of amounts is the same number whatever the order of     *)
(* summation.                                                              *)
(***************************************************************************)
EXTENDS Integers, Sequences, FiniteSets, TLC

VARIABLES
    tx_data,         \* the TransactionData record handed to the engine
    chunk_size,      \* process_partition_chunks' chunk_size parameter
    num_threads,     \* process_partition_chunks' num_threads local
    pc,              \* the dispatcher's position in process_partition_chunks
    input_generator, \* PartitionGenerator over the input indices
    output_generator,\* PartitionGenerator over the output indices
    input_chunk,     \* the chunk last taken from input_generator
    output_chunk,    \* the chunk last taken from output_generator
    workers,         \* one call of process_partition_batch per slot
    valid_count,     \* std::atomic<size_t>
    pruned_count,    \* std::atomic<size_t>
    checked_count,   \* std::atomic<size_t>
    pairs_processed, \* size_t, dispatcher only
    file_mutex,      \* 0 when free, else the slot holding it
    output_file,     \* [open, rows]: the CSV stream
    returned,        \* what process_partition_chunks returned (-1: not yet)
    taken,           \* history: every chunk next_chunk returned, in call order
    write_may_fail,  \* environment: whether operator<< on output_file can fail
    bell,            \* the locals of a call of compute_bell_number
    combinations,    \* the locals of a call of find_valid_combinations
    launcher         \* the locals of the loop that slices the pairs among threads

vars == <<tx_data, chunk_size, num_threads, pc, input_generator,
          output_generator, input_chunk, output_chunk, workers, valid_count,
          pruned_count, checked_count, pairs_processed, file_mutex,
          output_file, returned, taken, write_may_fail, bell, combinations,
          launcher>>

(***************************************************************************)
(* Bounds of the model.                                                    *)
(***************************************************************************)
MaxN == 3
MaxTotal == 4
MaxThreads == 2
MaxParSize == 4
MaxParTotal == 3
MaxParChunk == 1
MaxParChunkTotal == 2
MaxGenN == 4
MaxChunk == 4
MaxCalls == 6
MaxBellN == 8
MaxFetchN == 2
MaxAdds == 2
MaxRecordValue == 1
MaxSlicePairs == 12
MaxSliceThreads == 8

\* find_valid_partitions: const size_t chunk_size = 500
DefaultChunkSize == 500

\* create_custom_transaction's defaults, 1.0 BTC for an input and 0.5 BTC for
\* an output, in the model's unit of amount, which is half a BTC
DefaultInputValue == 2
DefaultOutputValue == 1

Min(a, b) == IF a <= b THEN a ELSE b

Range(s) == {s[i] : i \in 1..Len(s)}

RECURSIVE Flatten(_)
Flatten(ss) == IF ss = <<>> THEN <<>> ELSE Head(ss) \o Flatten(Tail(ss))

(***************************************************************************)
(* PartitionGenerator.  elements[i] = i (process_partition_chunks fills    *)
(* input_indices[i] = i), so the generator's elements vector is 0..n-1 and *)
(* the model keeps only its size n.                                        *)
(***************************************************************************)

RECURSIVE binomial_loop(_, _, _, _)
binomial_loop(n, k, i, result) ==
    IF i > k THEN result
    ELSE binomial_loop(n, k, i + 1, (result * (n - (k - i))) \div i)

RECURSIVE binomial_loop_divide_first(_, _, _, _)
\* a plausible slip: result /= i before result *= (n - (k - i))
binomial_loop_divide_first(n, k, i, result) ==
    IF i > k THEN result
    ELSE binomial_loop_divide_first(n, k, i + 1, (result \div i) * (n - (k - i)))

binomial_coefficient_divide_first(n, k) ==
    IF k > n THEN 0
    ELSE IF k = 0 \/ k = n THEN 1
    ELSE binomial_loop_divide_first(n, k, 1, 1)

binomial_coefficient(n, k) ==
    IF k > n THEN 0
    ELSE IF k = 0 \/ k = n THEN 1
    ELSE binomial_loop(n, k, 1, 1)

RECURSIVE Sum(_, _, _)
\* sum of f(j) for j = lo .. hi-1, in that order
Sum(f(_), lo, hi) == IF lo >= hi THEN 0 ELSE f(lo) + Sum(f, lo + 1, hi)

RECURSIVE bell_numbers(_)
bell_numbers(i) ==
    IF i = 0 THEN 1
    ELSE LET term(j) == bell_numbers(j) * binomial_coefficient(i - 1, j)
         IN Sum(term, 0, i)

\* the constructor
PartitionGenerator(n) ==
    [n |-> n, current_idx |-> 0, max_partitions |-> bell_numbers(n)]

has_more(gen) == gen.current_idx < gen.max_partitions

total_partitions(gen) == gen.max_partitions

current_progress(gen) == gen.current_idx

\* `result` stays empty until a return statement fills it
EmptyResult == <<>>

RECURSIVE add_to_each_subset(_, _, _, _, _)
\* Option 1: the loop over j; ret is TRUE when the chunk-size test returned
add_to_each_subset(partition, e, j, next_level, size) ==
    IF j > Len(partition) THEN [ret |-> FALSE, level |-> next_level]
    ELSE LET new_partition == [partition EXCEPT ![j] = Append(@, e)]
             nl == Append(next_level, new_partition)
         IN IF Len(EmptyResult) + Len(nl) >= size
            THEN [ret |-> TRUE, level |-> nl]
            ELSE add_to_each_subset(partition, e, j + 1, nl, size)

\* a plausible slip: Option 2 puts the new subset in front of the others
extend_partition_new_first(partition, e, next_level, size) ==
    LET a == add_to_each_subset(partition, e, 1, next_level, size)
    IN IF a.ret THEN a
       ELSE LET nl == Append(a.level, <<<<e>>>> \o partition)
            IN [ret |-> Len(EmptyResult) + Len(nl) >= size, level |-> nl]

\* the body of the loop over current_level: Option 1, then Option 2
extend_partition(partition, e, next_level, size) ==
    LET a == add_to_each_subset(partition, e, 1, next_level, size)
    IN IF a.ret THEN a
       ELSE LET nl == Append(a.level, Append(partition, <<e>>))
            IN [ret |-> Len(EmptyResult) + Len(nl) >= size, level |-> nl]

RECURSIVE extend_level(_, _, _, _, _)
extend_level(current_level, p, e, next_level, size) ==
    IF p > Len(current_level) THEN [ret |-> FALSE, level |-> next_level]
    ELSE LET r == extend_partition(current_level[p], e, next_level, size)
         IN IF r.ret THEN r
            ELSE extend_level(current_level, p + 1, e, r.level, size)

RECURSIVE process_elements(_, _, _, _)
\* the loop over i = 1 .. n-1; the value is the vector the function returns
process_elements(n, i, current_level, size) ==
    IF i >= n THEN current_level
    ELSE LET r == extend_level(current_level, 1, i, <<>>, size)
         IN IF r.ret THEN r.level
            ELSE process_elements(n, i + 1, r.level, size)

generate_partitions_chunk(gen, size) ==
    IF gen.n = 0 THEN [result |-> <<>>, gen |-> gen]
    ELSE IF gen.n = 1
    THEN IF gen.current_idx = 0
         THEN [result |-> << << <<0>> >> >>,
               gen |-> [gen EXCEPT !.current_idx = 1]]
         ELSE [result |-> <<>>, gen |-> gen]
    ELSE LET result == process_elements(gen.n, 1, << << <<0>> >> >>, size)
         IN [result |-> result,
             gen |-> [gen EXCEPT !.current_idx = @ + Len(result)]]

next_chunk(gen, size) ==
    IF ~has_more(gen) THEN [result |-> <<>>, gen |-> gen]
    ELSE generate_partitions_chunk(gen, size)

(***************************************************************************)
(* TransactionData (transaction_data.h) and its construction (main.cpp).   *)
(***************************************************************************)

EmptyMap == [x \in {} |-> 0]

\* std::unordered_map operator[] assignment
MapPut(map, key, value) ==
    [x \in (DOMAIN map) \cup {key} |-> IF x = key THEN value ELSE map[x]]

EmptyTransaction ==
    [inputs |-> EmptyMap, outputs |-> EmptyMap,
     input_ids |-> <<>>, output_ids |-> <<>>]

add_input(tx, id, value) ==
    [tx EXCEPT !.inputs = MapPut(@, id, value), !.input_ids = Append(@, id)]

add_output(tx, id, value) ==
    [tx EXCEPT !.outputs = MapPut(@, id, value), !.output_ids = Append(@, id)]

get_input_value(tx, id) ==
    IF id \in DOMAIN tx.inputs THEN tx.inputs[id] ELSE 0

get_output_value(tx, id) ==
    IF id \in DOMAIN tx.outputs THEN tx.outputs[id] ELSE 0

\* the sum over the map's entries (addition of the model's amounts is exact,
\* so the map's iteration order does not show)
RECURSIVE SumMap(_, _)
SumMap(map, keys) ==
    IF keys = {} THEN 0
    ELSE LET k == CHOOSE k \in keys : TRUE
         IN map[k] + SumMap(map, keys \ {k})

total_input_value(tx) == SumMap(tx.inputs, DOMAIN tx.inputs)

total_output_value(tx) == SumMap(tx.outputs, DOMAIN tx.outputs)

get_fee(tx) == total_input_value(tx) - total_output_value(tx)

\* if (num_inputs <= 0) num_inputs = 1  (the same for num_outputs)
prompted_count(num) == IF num <= 0 THEN 1 ELSE num

\* if (value <= 0) value = 1.0
entered_input_value(value) == IF value <= 0 THEN DefaultInputValue ELSE value

\* if (value <= 0) value = 0.5
entered_output_value(value) == IF value <= 0 THEN DefaultOutputValue ELSE value

RECURSIVE add_inputs(_, _, _)
\* the loop  for i < num_inputs: add_input("input_" + to_string(i), value)
add_inputs(tx, values, i) ==
    IF i >= Len(values) THEN tx
    ELSE add_inputs(add_input(tx, "input_" \o ToString(i),
                              entered_input_value(values[i + 1])),
                    values, i + 1)

RECURSIVE add_outputs(_, _, _)
add_outputs(tx, values, i) ==
    IF i >= Len(values) THEN tx
    ELSE add_outputs(add_output(tx, "output_" \o ToString(i),
                                entered_output_value(values[i + 1])),
                     values, i + 1)

\* in_values, out_values: the amounts typed at the prompts, one for each of
\* the prompted_count(num_inputs) inputs and prompted_count(num_outputs) outputs
create_custom_transaction(in_values, out_values) ==
    add_outputs(add_inputs(EmptyTransaction, in_values, 0), out_values, 0)

\* double value = 0.0, replaced by the previous output's value when the
\* previous transaction could be retrieved and holds it
vin_value(input) == IF input.retrieved THEN input.value ELSE 0

\* double value = 0.0, replaced by output["value"] when the output has one
vout_value(output) == IF output.retrieved THEN output.value ELSE 0

RECURSIVE parse_vin(_, _, _)
\* the loop over result["vin"]
parse_vin(tx, vin, i) ==
    IF i >= Len(vin) THEN tx
    ELSE parse_vin(add_input(tx, "input_" \o ToString(i), vin_value(vin[i + 1])),
                   vin, i + 1)

RECURSIVE parse_vout(_, _, _)
\* the loop over result["vout"]
parse_vout(tx, vout, i) ==
    IF i >= Len(vout) THEN tx
    ELSE parse_vout(add_output(tx, "output_" \o ToString(i), vout_value(vout[i + 1])),
                    vout, i + 1)

\* json_response: [has_result, vin, vout]; an absent "vin" or "vout" array is
\* an empty one here, the loops not being entered in either case
parse_transaction_data(json_response) ==
    IF ~json_response.has_result THEN EmptyTransaction
    ELSE parse_vout(parse_vin(EmptyTransaction, json_response.vin, 0),
                    json_response.vout, 0)

(***************************************************************************)
(* ElementMapper and the group sums (subset_generator.h).                  *)
(***************************************************************************)

ElementMapper(element_list) == [elements |-> element_list]

to_string_set(mapper, indices) ==
    [j \in 1..Len(indices) |-> mapper.elements[indices[j] + 1]]

to_string_partition(mapper, partition) ==
    [b \in 1..Len(partition) |-> to_string_set(mapper, partition[b])]

RECURSIVE calculate_subset_value(_, _, _)
calculate_subset_value(tx, subset, type) ==
    IF subset = <<>> THEN 0
    ELSE calculate_subset_value(tx, SubSeq(subset, 1, Len(subset) - 1), type)
         + (IF type = "INPUTS"
            THEN get_input_value(tx, subset[Len(subset)])
            ELSE get_output_value(tx, subset[Len(subset)]))

(***************************************************************************)
(* The pruner and the mapping checker.                                     *)
(***************************************************************************)

RECURSIVE InsertDescending(_, _)
InsertDescending(v, sorted) ==
    IF sorted = <<>> THEN <<v>>
    ELSE IF v >= Head(sorted) THEN <<v>> \o sorted
    ELSE <<Head(sorted)>> \o InsertDescending(v, Tail(sorted))

RECURSIVE SortDescending(_)
\* std::sort(begin, end, std::greater<double>())
SortDescending(values) ==
    IF values = <<>> THEN <<>>
    ELSE InsertDescending(Head(values), SortDescending(Tail(values)))

input_group_values(tx, input_partition, input_mapper) ==
    [b \in 1..Len(input_partition) |->
        calculate_subset_value(tx, to_string_set(input_mapper, input_partition[b]),
                               "INPUTS")]

output_group_values(tx, output_partition, output_mapper) ==
    [b \in 1..Len(output_partition) |->
        calculate_subset_value(tx, to_string_set(output_mapper, output_partition[b]),
                               "OUTPUTS")]

\* a plausible slip: the two value lists are compared without being sorted
could_have_valid_mapping_unsorted(tx, input_partition, output_partition, input_mapper, output_mapper) ==
    IF Len(input_partition) # Len(output_partition) THEN FALSE
    ELSE LET input_values == input_group_values(tx, input_partition, input_mapper)
             output_values == output_group_values(tx, output_partition, output_mapper)
         IN ~ \E i \in 1..Len(output_values) : output_values[i] > input_values[i]

\* a plausible slip: the loop returns true after its first pass, so only the
\* largest values are compared
could_have_valid_mapping_first_only(tx, input_partition, output_partition, input_mapper, output_mapper) ==
    IF Len(input_partition) # Len(output_partition) THEN FALSE
    ELSE LET input_values ==
                 SortDescending(input_group_values(tx, input_partition, input_mapper))
             output_values ==
                 SortDescending(output_group_values(tx, output_partition, output_mapper))
         IN ~ \E i \in 1..Min(1, Len(output_values)) : output_values[i] > input_values[i]

could_have_valid_mapping(tx, input_partition, output_partition, input_mapper, output_mapper) ==
    IF Len(input_partition) # Len(output_partition) THEN FALSE
    ELSE LET input_values ==
                 SortDescending(input_group_values(tx, input_partition, input_mapper))
             output_values ==
                 SortDescending(output_group_values(tx, output_partition, output_mapper))
         IN ~ \E i \in 1..Len(output_values) : output_values[i] > input_values[i]

\* a plausible slip: >= where the source has >
is_valid_mapping_strict(tx, input_partition, output_partition, input_mapper, output_mapper) ==
    IF Len(input_partition) # Len(output_partition) THEN FALSE
    ELSE ~ \E i \in 1..Len(input_partition) :
             output_group_values(tx, output_partition, output_mapper)[i]
                 >= input_group_values(tx, input_partition, input_mapper)[i]

\* a plausible slip: the totals are compared, not each group pair
is_valid_mapping_totals(tx, input_partition, output_partition, input_mapper, output_mapper) ==
    IF Len(input_partition) # Len(output_partition) THEN FALSE
    ELSE LET in_values == input_group_values(tx, input_partition, input_mapper)
             out_values == output_group_values(tx, output_partition, output_mapper)
             in_value(i) == in_values[i]
             out_value(i) == out_values[i]
         IN ~ (Sum(out_value, 1, Len(out_values) + 1) > Sum(in_value, 1, Len(in_values) + 1))

is_valid_mapping(tx, input_partition, output_partition, input_mapper, output_mapper) ==
    IF Len(input_partition) # Len(output_partition) THEN FALSE
    ELSE LET input_value(i) ==
                 calculate_subset_value(
                     tx, to_string_set(input_mapper, input_partition[i]), "INPUTS")
             output_value(i) ==
                 calculate_subset_value(
                     tx, to_string_set(output_mapper, output_partition[i]), "OUTPUTS")
         IN ~ \E i \in 1..Len(input_partition) : output_value(i) > input_value(i)

\* permuted_output[i] = output_partition[indices[i]]  (indices are 0-based)
permuted_output(output_partition, indices) ==
    [i \in 1..Len(indices) |-> output_partition[indices[i] + 1]]

IdentityIndices(k) == [i \in 1..k |-> i - 1]

Max(S) == CHOOSE x \in S : \A y \in S : y <= x

\* a plausible slip: the swap without the reversal of the tail
next_permutation_no_reverse(a) ==
    LET n == Len(a)
        ascents == {i \in 1..(n - 1) : a[i] < a[i + 1]}
    IN IF ascents = {}
       THEN [more |-> FALSE, indices |-> [x \in 1..n |-> a[n + 1 - x]]]
       ELSE LET i == Max(ascents)
                j == Max({y \in (i + 1)..n : a[y] > a[i]})
            IN [more |-> TRUE, indices |-> [a EXCEPT ![i] = a[j], ![j] = a[i]]]

\* std::next_permutation: more is its return value
next_permutation(a) ==
    LET n == Len(a)
        ascents == {i \in 1..(n - 1) : a[i] < a[i + 1]}
    IN IF ascents = {}
       THEN [more |-> FALSE, indices |-> [x \in 1..n |-> a[n + 1 - x]]]
       ELSE LET i == Max(ascents)
                j == Max({y \in (i + 1)..n : a[y] > a[i]})
                swapped == [a EXCEPT ![i] = a[j], ![j] = a[i]]
            IN [more |-> TRUE,
                indices |-> [x \in 1..n |->
                               IF x <= i THEN swapped[x]
                               ELSE swapped[n + i + 1 - x]]]

(***************************************************************************)
(* The CSV rows.  A row is a record; its kind tells which columns it has.  *)
(***************************************************************************)

HeaderRows ==
    << [kind |-> "header", columns |-> "Mapping_ID,Group_Count,Total_Input_Value,Total_Output_Value,Total_Difference"],
       [kind |-> "header", columns |-> "Mapping_ID,Group_Number,Input_Group,Input_Value,Output_Group,Output_Value,Difference"] >>

\* a plausible slip: the groups numbered from 1
format_mapping_for_csv_one_based(tx, input_partition, output_partition, indices, input_mapper, output_mapper, mapping_idx) ==
    LET input_string_partition == to_string_partition(input_mapper, input_partition)
        output_string_partition == to_string_partition(output_mapper, output_partition)
        in_value(i) == calculate_subset_value(tx, input_string_partition[i], "INPUTS")
        out_value(i) == calculate_subset_value(tx, output_string_partition[i], "OUTPUTS")
        total_input == Sum(in_value, 1, Len(input_string_partition) + 1)
        total_output == Sum(out_value, 1, Len(input_string_partition) + 1)
        summary == [kind |-> "summary",
                    Mapping_ID |-> mapping_idx,
                    Group_Count |-> Len(input_partition),
                    Total_Input_Value |-> total_input,
                    Total_Output_Value |-> total_output,
                    Total_Difference |-> total_input - total_output]
        detail(i) == [kind |-> "detail",
                      Mapping_ID |-> mapping_idx,
                      Group_Number |-> i,
                      Input_Group |-> input_string_partition[i],
                      Input_Value |-> in_value(i),
                      Output_Group |-> output_string_partition[i],
                      Output_Value |-> out_value(i),
                      Difference |-> in_value(i) - out_value(i)]
    IN <<summary>> \o [i \in 1..Len(input_string_partition) |-> detail(i)]

format_mapping_for_csv(tx, input_partition, output_partition, indices, input_mapper, output_mapper, mapping_idx) ==
    LET input_string_partition == to_string_partition(input_mapper, input_partition)
        output_string_partition == to_string_partition(output_mapper, output_partition)
        in_value(i) == calculate_subset_value(tx, input_string_partition[i], "INPUTS")
        out_value(i) == calculate_subset_value(tx, output_string_partition[i], "OUTPUTS")
        total_input == Sum(in_value, 1, Len(input_string_partition) + 1)
        total_output == Sum(out_value, 1, Len(input_string_partition) + 1)
        summary == [kind |-> "summary",
                    Mapping_ID |-> mapping_idx,
                    Group_Count |-> Len(input_partition),
                    Total_Input_Value |-> total_input,
                    Total_Output_Value |-> total_output,
                    Total_Difference |-> total_input - total_output]
        detail(i) == [kind |-> "detail",
                      Mapping_ID |-> mapping_idx,
                      Group_Number |-> i - 1,
                      Input_Group |-> input_string_partition[i],
                      Input_Value |-> in_value(i),
                      Output_Group |-> output_string_partition[i],
                      Output_Value |-> out_value(i),
                      Difference |-> in_value(i) - out_value(i)]
    IN <<summary>> \o [i \in 1..Len(input_string_partition) |-> detail(i)]

(***************************************************************************)
(* Reference notions the claims are stated with.                           *)
(***************************************************************************)

\* the blocks of an IndexPartition as a set of sets
AsSet(partition) == {Range(partition[b]) : b \in 1..Len(partition)}

RECURSIVE SetPartitions(_)
\* every set partition of 0..n-1, as a set of sets (blocks)
SetPartitions(n) ==
    IF n = 0 THEN {{}}
    ELSE LET e == n - 1
         IN UNION {{(P \ {A}) \cup {A \cup {e}} : A \in P} \cup {P \cup {{e}}} :
                      P \in SetPartitions(n - 1)}

\* the places <<b, j>> of an IndexPartition: block b, position j in it
Places(partition) ==
    UNION {{<<b, j>> : j \in 1..Len(partition[b])} : b \in 1..Len(partition)}

\* an IndexPartition of 0..n-1: no block empty, no index outside 0..n-1, and
\* every index at exactly one place
IsPartitionOf(partition, n) ==
    /\ \A b \in 1..Len(partition) : partition[b] # <<>>
    /\ \A bj \in Places(partition) : partition[bj[1]][bj[2]] \in 0..(n - 1)
    /\ \A x \in 0..(n - 1) :
          Cardinality({bj \in Places(partition) : partition[bj[1]][bj[2]] = x}) = 1

(***************************************************************************)
(* The generator on its own: a fresh generator over 0..n-1 and a caller    *)
(* that keeps calling next_chunk(chunk_size).                              *)
(***************************************************************************)

ChunkSizes == (1..MaxChunk) \cup {DefaultChunkSize}

NoWorker ==
    [pc |-> "idle", batch |-> <<>>, pos |-> 0, indices |-> <<>>,
     current_count |-> 0, csv |-> <<>>, visited |-> <<>>, emitted |-> <<>>,
     verdicts |-> <<>>]

\* no call of compute_bell_number in progress
NoBellCall == [at |-> "none", n |-> 0, i |-> 0, j |-> 0, bell_triangle |-> <<>>, result |-> -1]

\* the launch loop is not being looked at
NoLaunch == [at |-> "none", partition_pairs |-> <<>>, num_threads |-> 0, i |-> 0, futures |-> <<>>]

\* no call of find_valid_combinations in progress
NoCombinations == [input_subsets |-> <<>>, output_subsets |-> <<>>, i |-> 0, j |-> 0]

InitRest ==
    /\ tx_data = EmptyTransaction
    /\ num_threads = 1
    /\ output_generator = PartitionGenerator(0)
    /\ input_chunk = <<>>
    /\ output_chunk = <<>>
    /\ workers = [t \in 1..MaxThreads |-> NoWorker]
    /\ valid_count = 0
    /\ pruned_count = 0
    /\ checked_count = 0
    /\ pairs_processed = 0
    /\ file_mutex = 0
    /\ output_file = [open |-> FALSE, bad |-> FALSE, rows |-> <<>>]
    /\ returned = -1
    /\ write_may_fail = FALSE
    /\ bell = NoBellCall
    /\ combinations = NoCombinations

InitGen ==
    /\ \E n \in 0..MaxGenN : input_generator = PartitionGenerator(n)
    /\ chunk_size \in ChunkSizes
    /\ pc = "generator"
    /\ taken = <<>>
    /\ launcher = NoLaunch
    /\ InitRest

\* one call  input_chunk = input_generator.next_chunk(chunk_size)
GenNextChunk ==
    /\ pc = "generator"
    /\ Len(taken) < MaxCalls
    /\ LET r == next_chunk(input_generator, chunk_size)
       IN /\ input_chunk' = r.result
          /\ input_generator' = r.gen
          /\ taken' = Append(taken, r.result)
    /\ UNCHANGED <<launcher, write_may_fail, bell, combinations,
                   tx_data, chunk_size, num_threads, pc,
                   output_generator, output_chunk, workers, valid_count,
                   pruned_count, checked_count, pairs_processed, file_mutex,
                   output_file, returned>>

NextGen == GenNextChunk

SpecGen == InitGen /\ [][NextGen]_vars

(***************************************************************************)
(* compute_bell_number (bell_number.h), a loop iteration at a time, next   *)
(* to the construction of a PartitionGenerator over the same n elements.   *)
(* Row r of bell_triangle is the source's bell_triangle[r - 1].            *)
(***************************************************************************)

InitBell ==
    /\ \E n \in 0..MaxBellN :
          bell = [at |-> "entry", n |-> n, i |-> 0, j |-> 0,
                  bell_triangle |-> <<>>, result |-> -1]
    /\ pc = "bell"
    /\ input_generator = [n |-> 0, current_idx |-> 0, max_partitions |-> 0]
    /\ chunk_size = DefaultChunkSize
    /\ taken = <<>>
    /\ tx_data = EmptyTransaction
    /\ num_threads = 1
    /\ output_generator = PartitionGenerator(0)
    /\ input_chunk = <<>>
    /\ output_chunk = <<>>
    /\ workers = [t \in 1..MaxThreads |-> NoWorker]
    /\ valid_count = 0
    /\ pruned_count = 0
    /\ checked_count = 0
    /\ pairs_processed = 0
    /\ file_mutex = 0
    /\ output_file = [open |-> FALSE, bad |-> FALSE, rows |-> <<>>]
    /\ returned = -1
    /\ write_may_fail = FALSE
    /\ launcher = NoLaunch
    /\ combinations = NoCombinations

\* the early return for n = 0 and n = 1, else bell_triangle(n) with row 0 = {1}
BellEntry ==
    /\ pc = "bell" /\ bell.at = "entry"
    /\ bell' = IF bell.n = 0 \/ bell.n = 1
               THEN [bell EXCEPT !.result = 1, !.at = "returned"]
               ELSE [bell EXCEPT
                        !.bell_triangle = [r \in 1..bell.n |->
                                              IF r = 1 THEN <<1>> ELSE <<>>],
                        !.i = 1, !.at = "outer"]
    /\ UNCHANGED <<launcher, write_may_fail, combinations, tx_data, chunk_size,
                   num_threads, pc, input_generator, output_generator,
                   input_chunk, output_chunk, workers, valid_count,
                   pruned_count, checked_count, pairs_processed, file_mutex,
                   output_file, returned, taken>>

\* for (i = 1; i < n; i++): resize row i, copy the end of row i - 1 to its
\* front; after the loop, return bell_triangle[n-1][n-1]
BellOuter ==
    /\ pc = "bell" /\ bell.at = "outer"
    /\ LET i == bell.i
           t == bell.bell_triangle
       IN bell' = IF i < bell.n
                  THEN [bell EXCEPT
                           !.bell_triangle[i + 1] =
                               [c \in 1..(i + 1) |-> IF c = 1 THEN t[i][i] ELSE 0],
                           !.j = 1, !.at = "inner"]
                  ELSE [bell EXCEPT !.result = t[bell.n][bell.n],
                                    !.at = "returned"]
    /\ UNCHANGED <<launcher, write_may_fail, combinations, tx_data, chunk_size,
                   num_threads, pc, input_generator, output_generator,
                   input_chunk, output_chunk, workers, valid_count,
                   pruned_count, checked_count, pairs_processed, file_mutex,
                   output_file, returned, taken>>

\* for (j = 1; j <= i; j++): row[i][j] = row[i][j-1] + row[i-1][j-1]
BellInner ==
    /\ pc = "bell" /\ bell.at = "inner"
    /\ LET i == bell.i
           j == bell.j
           t == bell.bell_triangle
       IN bell' = IF j <= i
                  THEN [bell EXCEPT
                           !.bell_triangle[i + 1][j + 1] = t[i + 1][j] + t[i][j],
                           !.j = j + 1]
                  ELSE [bell EXCEPT !.i = i + 1, !.at = "outer"]
    /\ UNCHANGED <<launcher, write_may_fail, combinations, tx_data, chunk_size,
                   num_threads, pc, input_generator, output_generator,
                   input_chunk, output_chunk, workers, valid_count,
                   pruned_count, checked_count, pairs_processed, file_mutex,
                   output_file, returned, taken>>

\* PartitionGenerator generator(elements) for the same number of elements
ConstructGenerator ==
    /\ pc = "bell" /\ bell.at = "returned"
    /\ input_generator' = PartitionGenerator(bell.n)
    /\ pc' = "constructed"
    /\ UNCHANGED <<launcher, write_may_fail, bell, combinations,
                   tx_data, chunk_size, num_threads,
                   output_generator, input_chunk, output_chunk, workers,
                   valid_count, pruned_count, checked_count, pairs_processed,
                   file_mutex, output_file, returned, taken>>

NextBell == BellEntry \/ BellOuter \/ BellInner \/ ConstructGenerator

SpecBell == InitBell /\ [][NextBell]_vars

(***************************************************************************)
(* The engine: process_partition_chunks (the dispatcher) and the calls of  *)
(* process_partition_batch it makes, directly or through std::async.       *)
(* Slot i + 1 of `workers` is the future launched for thread i; the direct *)
(* call of the single-thread path runs in slot 1.                          *)
(***************************************************************************)

Slots == 1..MaxThreads

\* the nested loops that fill partition_pairs
make_partition_pairs(in_chunk, out_chunk) ==
    LET lo == Len(out_chunk)
        cross == [x \in 1..(Len(in_chunk) * lo) |->
                     <<in_chunk[((x - 1) \div lo) + 1], out_chunk[((x - 1) % lo) + 1]>>]
    IN SelectSeq(cross, LAMBDA p : Len(p[1]) = Len(p[2]))

RECURSIVE stirling_second_kind(_, _)
stirling_second_kind(n, k) ==
    IF k = 0 THEN (IF n = 0 THEN 1 ELSE 0)
    ELSE IF k > n THEN 0
    ELSE IF k = 1 \/ k = n THEN 1
    ELSE k * stirling_second_kind(n - 1, k) + stirling_second_kind(n - 1, k - 1)

\* the estimate process_partition_chunks announces before its main loop
total_compatible_pairs(input_ids, output_ids) ==
    LET input_partitions_by_size(k) == stirling_second_kind(Len(input_ids), k)
        output_partitions_by_size(k) == stirling_second_kind(Len(output_ids), k)
        product(k) == input_partitions_by_size(k) * output_partitions_by_size(k)
    IN Sum(product, 1, Min(Len(input_ids), Len(output_ids)) + 1)

\* a plausible slip: the batch size rounded down
thread_batch_floor(partition_pairs, i, threads) ==
    LET thread_batch_size == Len(partition_pairs) \div threads
        start_idx == i * thread_batch_size
        end_idx == Min(start_idx + thread_batch_size, Len(partition_pairs))
    IN IF start_idx >= Len(partition_pairs) THEN <<>>
       ELSE SubSeq(partition_pairs, start_idx + 1, end_idx)

\* thread i's slice: empty when the launch loop breaks before i
thread_batch(partition_pairs, i, threads) ==
    LET thread_batch_size == (Len(partition_pairs) + threads - 1) \div threads
        start_idx == i * thread_batch_size
        end_idx == Min(start_idx + thread_batch_size, Len(partition_pairs))
    IN IF start_idx >= Len(partition_pairs) THEN <<>>
       ELSE SubSeq(partition_pairs, start_idx + 1, end_idx)

StartWorker(batch) ==
    [pc |-> "pair", batch |-> batch, pos |-> 1, indices |-> <<>>,
     current_count |-> 0, csv |-> <<>>, visited |-> <<>>, emitted |-> <<>>,
     verdicts |-> <<>>]

\* a plausible slip: the pairs are sliced among MaxThreads futures whatever
\* num_threads is
launch_always_async(partition_pairs, threads) ==
    [t \in Slots |->
        IF thread_batch(partition_pairs, t - 1, MaxThreads) # <<>>
        THEN StartWorker(thread_batch(partition_pairs, t - 1, MaxThreads))
        ELSE NoWorker]

\* the branch on num_threads and partition_pairs.size()
launch(partition_pairs, threads) ==
    IF threads <= 1 \/ Len(partition_pairs) <= 1
    THEN [t \in Slots |-> IF t = 1 THEN StartWorker(partition_pairs) ELSE NoWorker]
    ELSE [t \in Slots |->
            IF t <= threads /\ thread_batch(partition_pairs, t - 1, threads) # <<>>
            THEN StartWorker(thread_batch(partition_pairs, t - 1, threads))
            ELSE NoWorker]

input_mapper == ElementMapper(tx_data.input_ids)

output_mapper == ElementMapper(tx_data.output_ids)

RECURSIVE SeqSum(_)
SeqSum(s) == IF s = <<>> THEN 0 ELSE Head(s) + SeqSum(Tail(s))

\* n positive amounts of at most MaxTotal units together
Amounts(n) == {v \in [1..n -> 1..MaxTotal] : SeqSum(v) <= MaxTotal}

\* the transactions create_custom_transaction builds from positive amounts,
\* with the given numbers <<n, m>> of inputs and outputs
Transactions(sizes) ==
    UNION {{create_custom_transaction(iv, ov) :
               iv \in Amounts(nm[1]), ov \in Amounts(nm[2])} :
           nm \in sizes}

\* at most MaxN inputs and MaxN outputs
Sizes == (1..MaxN) \X (1..MaxN)

\* at most MaxParSize inputs and outputs together
ParSizes == {nm \in (1..MaxParSize) \X (1..MaxParSize) : nm[1] + nm[2] <= MaxParSize}

NoGenerator == [n |-> 0, current_idx |-> 0, max_partitions |-> 0]

InitEngine(txs, threads, chunks, faults) ==
    /\ write_may_fail \in faults
    /\ launcher = NoLaunch
    /\ bell = NoBellCall
    /\ combinations = NoCombinations
    /\ tx_data \in txs
    /\ num_threads \in threads
    /\ chunk_size \in chunks
    /\ pc = "start"
    /\ input_generator = NoGenerator
    /\ output_generator = NoGenerator
    /\ input_chunk = <<>>
    /\ output_chunk = <<>>
    /\ workers = [t \in Slots |-> NoWorker]
    /\ valid_count = 0
    /\ pruned_count = 0
    /\ checked_count = 0
    /\ pairs_processed = 0
    /\ file_mutex = 0
    /\ output_file = [open |-> FALSE, bad |-> FALSE, rows |-> <<>>]
    /\ returned = -1
    /\ taken = <<>>

\* std::ofstream output_file(output_filename), the header and the generators
OpenFile ==
    /\ pc = "start"
    /\ \E is_open \in BOOLEAN :
          IF ~is_open
          THEN /\ returned' = 0
               /\ pc' = "done"
               /\ UNCHANGED <<output_file, input_generator>>
          ELSE /\ output_file' = [open |-> TRUE, bad |-> FALSE, rows |-> HeaderRows]
               /\ input_generator' = PartitionGenerator(Len(input_mapper.elements))
               /\ pc' = "outer"
               /\ UNCHANGED returned
    /\ UNCHANGED <<launcher, write_may_fail, bell, combinations,
                   tx_data, chunk_size, num_threads, output_generator,
                   input_chunk, output_chunk, workers, valid_count,
                   pruned_count, checked_count, pairs_processed, file_mutex,
                   taken>>

\* while (input_generator.has_more()): take a chunk, make a fresh output generator
OuterLoop ==
    /\ pc = "outer"
    /\ IF has_more(input_generator)
       THEN LET r == next_chunk(input_generator, chunk_size)
            IN /\ input_chunk' = r.result
               /\ input_generator' = r.gen
               /\ output_generator' = PartitionGenerator(Len(output_mapper.elements))
               /\ pc' = "inner"
       ELSE /\ pc' = "finish"
            /\ UNCHANGED <<input_chunk, input_generator, output_generator>>
    /\ UNCHANGED <<launcher, write_may_fail, bell, combinations,
                   tx_data, chunk_size, num_threads, output_chunk, workers,
                   valid_count, pruned_count, checked_count, pairs_processed,
                   file_mutex, output_file, returned, taken>>

\* a plausible slip: the chunk combination is counted, not its pairs
partition_pairs_one(partition_pairs) == 1

\* pairs_processed += partition_pairs.size()
partition_pairs_size(partition_pairs) == Len(partition_pairs)

\* while (output_generator.has_more()): take a chunk, pair it, hand the pairs out
InnerLoop ==
    /\ pc = "inner"
    /\ IF has_more(output_generator)
       THEN LET r == next_chunk(output_generator, chunk_size)
                partition_pairs == make_partition_pairs(input_chunk, r.result)
            IN /\ output_chunk' = r.result
               /\ output_generator' = r.gen
               /\ IF partition_pairs = <<>>
                  THEN /\ pc' = "inner"
                       /\ UNCHANGED <<pairs_processed, workers>>
                  ELSE /\ pairs_processed' = pairs_processed + partition_pairs_size(partition_pairs)
                       /\ workers' = launch(partition_pairs, num_threads)
                       /\ pc' = "join"
       ELSE /\ pc' = "outer"
            /\ UNCHANGED <<output_chunk, output_generator, pairs_processed, workers>>
    /\ UNCHANGED <<launcher, write_may_fail, bell, combinations,
                   tx_data, chunk_size, num_threads, input_generator,
                   input_chunk, valid_count, pruned_count, checked_count,
                   file_mutex, output_file, returned, taken>>

\* a plausible slip: only the first future is waited for
futures_waited_first == {1}

\* for (auto& future : futures) future.wait(); the direct call of the
\* single-thread path has returned when the dispatcher goes on
futures_waited == Slots

\* the direct call has returned, or every future.wait() has; the futures
\* and their batches are destroyed at the end of the block
Join ==
    /\ pc = "join"
    /\ \A t \in futures_waited : workers[t].pc \in {"idle", "done"}
    /\ workers' = [t \in Slots |->
                      IF workers[t].pc \in {"idle", "done"} THEN NoWorker
                      ELSE workers[t]]
    /\ pc' = "inner"
    /\ UNCHANGED <<launcher, write_may_fail, bell, combinations,
                   tx_data, chunk_size, num_threads, input_generator,
                   output_generator, input_chunk, output_chunk, valid_count,
                   pruned_count, checked_count, pairs_processed, file_mutex,
                   output_file, returned, taken>>

\* output_file.close(); return valid_count
Finish ==
    /\ pc = "finish"
    /\ output_file' = [output_file EXCEPT !.open = FALSE]
    /\ returned' = valid_count
    /\ pc' = "done"
    /\ UNCHANGED <<launcher, write_may_fail, bell, combinations,
                   tx_data, chunk_size, num_threads, input_generator,
                   output_generator, input_chunk, output_chunk, workers,
                   valid_count, pruned_count, checked_count, pairs_processed,
                   file_mutex, taken>>

\* the end of one pass of check_all_permutations' do-while: next_permutation
Advance(w) ==
    LET np == next_permutation(w.indices)
    IN [w EXCEPT !.indices = np.indices,
                 !.pc = IF np.more THEN "perm" ELSE "checked"]

\* a plausible slip: fetch_add's own value, the count before the increment
fetch_add_old_value(counter) == counter

\* valid_count.fetch_add(1) + 1
fetch_add_plus_one(counter) == counter + 1

\* a plausible slip: the write without the lock_guard
can_lock_unguarded(t) == TRUE

\* a plausible slip: the caller holds file_mutex already, so the lock_guard
\* never gets it
can_lock_never(t) == FALSE

\* std::lock_guard<std::mutex> lock(file_mutex) can be taken
can_lock(t) == file_mutex = 0

\* process_partition_batch: the head of the loop over the pairs, up to the
\* pruner's verdict
NextPair(t) ==
    LET w == workers[t] IN
    /\ w.pc = "pair"
    /\ IF w.pos > Len(w.batch)
       THEN /\ workers' = [workers EXCEPT ![t].pc = "done"]
            /\ UNCHANGED pruned_count
       ELSE LET input_partition == w.batch[w.pos][1]
                output_partition == w.batch[w.pos][2]
            IN IF Len(input_partition) # Len(output_partition)
               THEN /\ workers' = [workers EXCEPT
                                      ![t].pos = @ + 1,
                                      ![t].verdicts = Append(@, "skipped")]
                    /\ UNCHANGED pruned_count
               ELSE IF ~could_have_valid_mapping(tx_data, input_partition,
                            output_partition, input_mapper, output_mapper)
               THEN /\ pruned_count' = pruned_count + 1
                    /\ workers' = [workers EXCEPT
                                      ![t].pos = @ + 1,
                                      ![t].verdicts = Append(@, "pruned")]
               ELSE /\ workers' = [workers EXCEPT
                                      ![t].indices = IdentityIndices(Len(output_partition)),
                                      ![t].visited = <<>>,
                                      ![t].emitted = <<>>,
                                      ![t].pc = "perm"]
                    /\ UNCHANGED pruned_count
    /\ UNCHANGED <<launcher, write_may_fail, bell, combinations,
                   tx_data, chunk_size, num_threads, pc, input_generator,
                   output_generator, input_chunk, output_chunk, valid_count,
                   checked_count, pairs_processed, file_mutex, output_file,
                   returned, taken>>

\* check_all_permutations: one pass of the do-while up to the write
CheckPermutation(t) ==
    LET w == workers[t]
        input_partition == w.batch[w.pos][1]
        output_partition == w.batch[w.pos][2]
        permuted == permuted_output(output_partition, w.indices)
        seen == [w EXCEPT !.visited = Append(@, w.indices)]
    IN
    /\ w.pc = "perm"
    /\ IF is_valid_mapping(tx_data, input_partition, permuted,
                           input_mapper, output_mapper)
       THEN LET current_count == fetch_add_plus_one(valid_count)
            IN /\ valid_count' = valid_count + 1
               /\ workers' = [workers EXCEPT ![t] =
                     [seen EXCEPT
                        !.current_count = current_count,
                        !.csv = format_mapping_for_csv(tx_data, input_partition,
                                    permuted, w.indices, input_mapper,
                                    output_mapper, current_count),
                        !.emitted = Append(@, w.indices),
                        !.pc = "lock"]]
       ELSE /\ workers' = [workers EXCEPT ![t] = Advance(seen)]
            /\ UNCHANGED valid_count
    /\ UNCHANGED <<launcher, write_may_fail, bell, combinations,
                   tx_data, chunk_size, num_threads, pc, input_generator,
                   output_generator, input_chunk, output_chunk, pruned_count,
                   checked_count, pairs_processed, file_mutex, output_file,
                   returned, taken>>

\* the lock_guard's constructor
LockFile(t) ==
    /\ workers[t].pc = "lock"
    /\ can_lock(t)
    /\ file_mutex' = t
    /\ workers' = [workers EXCEPT ![t].pc = "write"]
    /\ UNCHANGED <<launcher, write_may_fail, bell, combinations,
                   tx_data, chunk_size, num_threads, pc, input_generator,
                   output_generator, input_chunk, output_chunk, valid_count,
                   pruned_count, checked_count, pairs_processed, output_file,
                   returned, taken>>

\* operator<< on the stream: nothing once the stream is bad; a failing write
\* sets the stream bad and writes nothing; the function does not test either
stream_insert(file, row, fails) ==
    IF file.bad THEN file
    ELSE IF fails THEN [file EXCEPT !.bad = TRUE]
    ELSE [file EXCEPT !.rows = Append(@, row)]

\* output_file << csv_data, a row at a time; after the last row the flush
\* and the end of the lock_guard's scope, then next_permutation
WriteRow(t) ==
    LET w == workers[t] IN
    /\ w.pc = "write"
    /\ \E fails \in (IF write_may_fail THEN BOOLEAN ELSE {FALSE}) :
          output_file' = stream_insert(output_file, Head(w.csv), fails)
    /\ IF Tail(w.csv) = <<>>
       THEN /\ file_mutex' = 0
            /\ workers' = [workers EXCEPT ![t] = Advance([w EXCEPT !.csv = <<>>])]
       ELSE /\ workers' = [workers EXCEPT ![t].csv = Tail(@)]
            /\ UNCHANGED file_mutex
    /\ UNCHANGED <<launcher, write_may_fail, bell, combinations,
                   tx_data, chunk_size, num_threads, pc, input_generator,
                   output_generator, input_chunk, output_chunk, valid_count,
                   pruned_count, checked_count, pairs_processed, returned,
                   taken>>

\* check_all_permutations has returned: checked_count.fetch_add(1)
CountChecked(t) ==
    /\ workers[t].pc = "checked"
    /\ checked_count' = checked_count + 1
    /\ workers' = [workers EXCEPT ![t].pos = @ + 1,
                                  ![t].verdicts = Append(@, "checked"),
                                  ![t].pc = "pair"]
    /\ UNCHANGED <<launcher, write_may_fail, bell, combinations,
                   tx_data, chunk_size, num_threads, pc, input_generator,
                   output_generator, input_chunk, output_chunk, valid_count,
                   pruned_count, pairs_processed, file_mutex, output_file,
                   returned, taken>>

Next ==
    \/ OpenFile
    \/ OuterLoop
    \/ InnerLoop
    \/ Join
    \/ Finish
    \/ \E t \in Slots : NextPair(t)
    \/ \E t \in Slots : CheckPermutation(t)
    \/ \E t \in Slots : LockFile(t)
    \/ \E t \in Slots : WriteRow(t)
    \/ \E t \in Slots : CountChecked(t)

\* the transactions of the specification's scenarios S4 and S5, entered
\* through create_custom_transaction; 1.0 BTC is two units of the model
ScenarioS4 == create_custom_transaction(<<6>>, <<10>>)

ScenarioS5 == create_custom_transaction(<<4, 6>>, <<2, 8>>)

ScenarioTransactions == {ScenarioS4, ScenarioS5}

\* find_valid_partitions: one thread, the fixed chunk size
Init ==
    InitEngine(Transactions(Sizes) \cup ScenarioTransactions, {1},
               {DefaultChunkSize}, {FALSE})

Spec == Init /\ [][Next]_vars

\* the transactions of ParSizes with at most MaxParTotal units on each side
ParTransactions ==
    {tx \in Transactions(ParSizes) :
        total_input_value(tx) <= MaxParTotal /\ total_output_value(tx) <= MaxParTotal}

\* find_valid_partitions with MaxThreads threads
InitPar == InitEngine(ParTransactions, {MaxThreads}, {DefaultChunkSize}, {FALSE})

SpecPar == InitPar /\ [][Next]_vars

\* process_partition_chunks called with any chunk size
InitChunks == InitEngine(Transactions(Sizes), {1}, ChunkSizes, {FALSE})

SpecChunks == InitChunks /\ [][Next]_vars

\* find_valid_partitions writing to a file whose writes can fail
InitSink == InitEngine(Transactions(Sizes), {1}, {DefaultChunkSize}, {TRUE})

SpecSink == InitSink /\ [][Next]_vars

(***************************************************************************)
(* The launch loop of process_partition_chunks on its own: P >= 2 pairs,   *)
(* named 1..P, sliced among W >= 2 threads; futures holds the thread_batch *)
(* each std::async was given.                                              *)
(***************************************************************************)

InitSlices ==
    /\ pc = "slices"
    /\ \E P \in 2..MaxSlicePairs : \E W \in 2..MaxSliceThreads :
          launcher = [at |-> "loop", partition_pairs |-> [x \in 1..P |-> x],
                      num_threads |-> W, i |-> 0, futures |-> <<>>]
    /\ input_generator = NoGenerator
    /\ chunk_size = DefaultChunkSize
    /\ taken = <<>>
    /\ InitRest

\* one pass of  for (unsigned int i = 0; i < num_threads; ++i)
LaunchSlice ==
    /\ pc = "slices"
    /\ launcher.at = "loop"
    /\ launcher.i < launcher.num_threads
    /\ LET batch == thread_batch(launcher.partition_pairs, launcher.i,
                                 launcher.num_threads)
       IN IF launcher.i * ((Len(launcher.partition_pairs) + launcher.num_threads - 1)
                              \div launcher.num_threads)
                >= Len(launcher.partition_pairs)
          THEN launcher' = [launcher EXCEPT !.at = "launched"]
          ELSE launcher' = [launcher EXCEPT !.futures = Append(@, batch),
                                            !.i = @ + 1]
    /\ UNCHANGED <<write_may_fail, bell, combinations, tx_data, chunk_size,
                   num_threads, pc, input_generator, output_generator,
                   input_chunk, output_chunk, workers, valid_count,
                   pruned_count, checked_count, pairs_processed, file_mutex,
                   output_file, returned, taken>>

\* the loop condition is false
LaunchEnd ==
    /\ pc = "slices"
    /\ launcher.at = "loop"
    /\ launcher.i >= launcher.num_threads
    /\ launcher' = [launcher EXCEPT !.at = "launched"]
    /\ UNCHANGED <<write_may_fail, bell, combinations, tx_data, chunk_size,
                   num_threads, pc, input_generator, output_generator,
                   input_chunk, output_chunk, workers, valid_count,
                   pruned_count, checked_count, pairs_processed, file_mutex,
                   output_file, returned, taken>>

NextSlices == LaunchSlice \/ LaunchEnd

SpecSlices == InitSlices /\ [][NextSlices]_vars

\* chunk sizes that cut the partitions of ParSizes into several chunks, and
\* the default, which does not
ParChunkSizes == (1..MaxParChunk) \cup {DefaultChunkSize}

\* the transactions of ParSizes with at most MaxParChunkTotal units on each side
ParChunkTransactions ==
    {tx \in Transactions(ParSizes) :
        /\ total_input_value(tx) <= MaxParChunkTotal
        /\ total_output_value(tx) <= MaxParChunkTotal}

\* process_partition_chunks called with these chunk sizes, MaxThreads threads
InitParChunks ==
    InitEngine(ParChunkTransactions, {MaxThreads}, ParChunkSizes, {FALSE})

SpecParChunks == InitParChunks /\ [][Next]_vars

\* before the call: the caller has not yet passed its arguments
InitCall ==
    /\ pc = "call"
    /\ tx_data = EmptyTransaction
    /\ num_threads = MaxThreads
    /\ chunk_size = DefaultChunkSize
    /\ input_generator = NoGenerator
    /\ output_generator = NoGenerator
    /\ input_chunk = <<>>
    /\ output_chunk = <<>>
    /\ workers = [t \in Slots |-> NoWorker]
    /\ valid_count = 0
    /\ pruned_count = 0
    /\ checked_count = 0
    /\ pairs_processed = 0
    /\ file_mutex = 0
    /\ output_file = [open |-> FALSE, bad |-> FALSE, rows |-> <<>>]
    /\ returned = -1
    /\ taken = <<>>
    /\ write_may_fail = FALSE
    /\ launcher = NoLaunch
    /\ bell = NoBellCall
    /\ combinations = NoCombinations

\* process_partition_chunks(tx_data, input_mapper, output_mapper, chunk_size,
\* output_filename) is called
CallProcessPartitionChunks ==
    /\ pc = "call"
    /\ tx_data' \in ParChunkTransactions
    /\ chunk_size' \in ParChunkSizes
    /\ pc' = "start"
    /\ UNCHANGED <<launcher, write_may_fail, bell, combinations,
                   num_threads, input_generator, output_generator,
                   input_chunk, output_chunk, workers, valid_count,
                   pruned_count, checked_count, pairs_processed, file_mutex,
                   output_file, returned, taken>>

NextCall == CallProcessPartitionChunks \/ Next

\* the runs of SpecParChunks from the call on, under the weakest scheduling
\* assumption: while some thread can take a step, some thread does.  Every
\* fair scheduling of the dispatcher and the workers satisfies it.
SpecParChunksFair == InitCall /\ [][NextCall]_vars /\ WF_vars(NextCall)

(***************************************************************************)
(* Subset-pairs mode: generate_subsets (subset_generator.h) and            *)
(* find_valid_combinations (subset_analyzer.h), an iteration of the inner  *)
(* loop at a time.                                                         *)
(***************************************************************************)

RECURSIVE Pow2(_)
\* 1ULL << n
Pow2(n) == IF n = 0 THEN 1 ELSE 2 * Pow2(n - 1)

RECURSIVE subset_of_bits(_, _, _)
\* the loop over j: ids[j] is included when bit j of i is set
subset_of_bits(ids, i, j) ==
    IF j >= Len(ids) THEN <<>>
    ELSE (IF (i \div Pow2(j)) % 2 = 1 THEN <<ids[j + 1]>> ELSE <<>>)
         \o subset_of_bits(ids, i, j + 1)

\* a plausible slip: the loop over i stops before total_subsets
generate_subsets_exclusive(tx, type) ==
    LET ids == IF type = "INPUTS" THEN tx.input_ids ELSE tx.output_ids
        total_subsets == Pow2(Len(ids)) - 1
    IN [i \in 1..(total_subsets - 1) |-> subset_of_bits(ids, i, 0)]

generate_subsets(tx, type) ==
    LET ids == IF type = "INPUTS" THEN tx.input_ids ELSE tx.output_ids
        total_subsets == Pow2(Len(ids)) - 1
    IN [i \in 1..total_subsets |-> subset_of_bits(ids, i, 0)]

CombinationsHeader ==
    << [kind |-> "header", columns |-> "Combination_ID,Input_Subset,Input_Value,Output_Subset,Output_Value,Difference"] >>

\* the overload that generates the subsets, up to the header
\* (the file may fail to open: return 0)
CombinationsOpen ==
    /\ pc = "combinations"
    /\ \E is_open \in BOOLEAN :
          IF ~is_open
          THEN /\ returned' = 0
               /\ pc' = "done"
               /\ UNCHANGED <<output_file, combinations>>
          ELSE /\ output_file' = [open |-> TRUE, bad |-> FALSE,
                                  rows |-> CombinationsHeader]
               /\ combinations' =
                      [input_subsets |-> generate_subsets(tx_data, "INPUTS"),
                       output_subsets |-> generate_subsets(tx_data, "OUTPUTS"),
                       i |-> 1, j |-> 1]
               /\ pc' = "pairs"
               /\ UNCHANGED returned
    /\ UNCHANGED <<launcher, write_may_fail, bell, tx_data, chunk_size,
                   num_threads, input_generator, output_generator,
                   input_chunk, output_chunk, workers, valid_count,
                   pruned_count, checked_count, pairs_processed, file_mutex,
                   taken>>

\* one iteration of the inner loop: the pair (input_subsets[i], output_subsets[j])
CombinationsPair ==
    /\ pc = "pairs"
    /\ combinations.i <= Len(combinations.input_subsets)
    /\ LET input_subset == combinations.input_subsets[combinations.i]
           output_subset == combinations.output_subsets[combinations.j]
           input_value == calculate_subset_value(tx_data, input_subset, "INPUTS")
           output_value == calculate_subset_value(tx_data, output_subset, "OUTPUTS")
       IN IF output_value <= input_value
          THEN /\ valid_count' = valid_count + 1
               /\ output_file' =
                      [output_file EXCEPT !.rows = Append(@,
                          [kind |-> "combination",
                           Combination_ID |-> valid_count + 1,
                           Input_Subset |-> input_subset,
                           Input_Value |-> input_value,
                           Output_Subset |-> output_subset,
                           Output_Value |-> output_value,
                           Difference |-> input_value - output_value])]
          ELSE UNCHANGED <<valid_count, output_file>>
    /\ combinations' =
           IF combinations.j < Len(combinations.output_subsets)
           THEN [combinations EXCEPT !.j = @ + 1]
           ELSE [combinations EXCEPT !.i = @ + 1, !.j = 1]
    /\ UNCHANGED <<launcher, write_may_fail, bell, tx_data, chunk_size,
                   num_threads, pc, input_generator, output_generator,
                   input_chunk, output_chunk, workers,
                   pruned_count, checked_count, pairs_processed, file_mutex,
                   returned, taken>>

\* output_file.close(); return valid_count
CombinationsFinish ==
    /\ pc = "pairs"
    /\ combinations.i > Len(combinations.input_subsets)
    /\ output_file' = [output_file EXCEPT !.open = FALSE]
    /\ returned' = valid_count
    /\ pc' = "done"
    /\ UNCHANGED <<launcher, write_may_fail, bell, combinations, tx_data, chunk_size,
                   num_threads, input_generator, output_generator,
                   input_chunk, output_chunk, workers, valid_count,
                   pruned_count, checked_count, pairs_processed, file_mutex,
                   taken>>

InitCombinations ==
    /\ pc = "combinations"
    /\ tx_data \in Transactions(Sizes)
    /\ num_threads = 1
    /\ chunk_size = DefaultChunkSize
    /\ input_generator = NoGenerator
    /\ output_generator = NoGenerator
    /\ input_chunk = <<>>
    /\ output_chunk = <<>>
    /\ workers = [t \in Slots |-> NoWorker]
    /\ valid_count = 0
    /\ pruned_count = 0
    /\ checked_count = 0
    /\ pairs_processed = 0
    /\ file_mutex = 0
    /\ output_file = [open |-> FALSE, bad |-> FALSE, rows |-> <<>>]
    /\ returned = -1
    /\ taken = <<>>
    /\ write_may_fail = FALSE
    /\ launcher = NoLaunch
    /\ bell = NoBellCall
    /\ combinations = NoCombinations

NextCombinations == CombinationsOpen \/ CombinationsPair \/ CombinationsFinish

SpecCombinations == InitCombinations /\ [][NextCombinations]_vars

(***************************************************************************)
(* A TransactionData record under construction: any caller, any sequence   *)
(* of add_input and add_output calls.                                      *)
(***************************************************************************)

\* the ids and amounts a caller may pass
Ids == {"", "input_0", "output_0"}

Values == (0 - 1)..MaxRecordValue

InitRecord ==
    /\ pc = "record"
    /\ input_generator = NoGenerator
    /\ chunk_size = DefaultChunkSize
    /\ taken = <<>>
    /\ launcher = NoLaunch
    /\ InitRest

AddInput ==
    /\ pc = "record"
    /\ Len(tx_data.input_ids) < MaxAdds
    /\ \E id \in Ids : \E value \in Values : tx_data' = add_input(tx_data, id, value)
    /\ UNCHANGED <<launcher, write_may_fail, bell, combinations, chunk_size,
                   num_threads, pc, input_generator, output_generator,
                   input_chunk, output_chunk, workers, valid_count,
                   pruned_count, checked_count, pairs_processed, file_mutex,
                   output_file, returned, taken>>

AddOutput ==
    /\ pc = "record"
    /\ Len(tx_data.output_ids) < MaxAdds
    /\ \E id \in Ids : \E value \in Values : tx_data' = add_output(tx_data, id, value)
    /\ UNCHANGED <<launcher, write_may_fail, bell, combinations, chunk_size,
                   num_threads, pc, input_generator, output_generator,
                   input_chunk, output_chunk, workers, valid_count,
                   pruned_count, checked_count, pairs_processed, file_mutex,
                   output_file, returned, taken>>

NextRecord == AddInput \/ AddOutput

SpecRecord == InitRecord /\ [][NextRecord]_vars

(***************************************************************************)
(* main: the transaction is fetched (choice 1) or typed in (choice 2) and  *)
(* handed to find_valid_partitions (analysis 2).                           *)
(***************************************************************************)

\* an element of "vin" or "vout": whether its value could be read, and the value
JsonEntries ==
    {[retrieved |-> FALSE, value |-> 0]} \cup
    {[retrieved |-> TRUE, value |-> v] : v \in 0..MaxTotal}

JsonArrays ==
    {a \in UNION {[1..n -> JsonEntries] : n \in 0..MaxFetchN} :
        SeqSum([i \in 1..Len(a) |-> a[i].value]) <= MaxTotal}

\* the responses of getrawtransaction
JsonResponses ==
    [has_error : {FALSE}, has_result : BOOLEAN, vin : JsonArrays, vout : JsonArrays]
        \cup {[has_error |-> TRUE, has_result |-> FALSE, vin |-> <<>>, vout |-> <<>>]}

\* what can be typed at the value prompts of n inputs
TypedInputs(n) ==
    {v \in [1..n -> 0..MaxTotal] :
        SeqSum([i \in 1..n |-> entered_input_value(v[i])]) <= MaxTotal}

\* what can be typed at the value prompts of n outputs
TypedOutputs(n) ==
    {v \in [1..n -> 0..MaxTotal] :
        SeqSum([i \in 1..n |-> entered_output_value(v[i])]) <= MaxTotal}

InitMain ==
    /\ pc = "main"
    /\ tx_data = EmptyTransaction
    /\ num_threads = 1
    /\ chunk_size = DefaultChunkSize
    /\ input_generator = NoGenerator
    /\ output_generator = NoGenerator
    /\ input_chunk = <<>>
    /\ output_chunk = <<>>
    /\ workers = [t \in Slots |-> NoWorker]
    /\ valid_count = 0
    /\ pruned_count = 0
    /\ checked_count = 0
    /\ pairs_processed = 0
    /\ file_mutex = 0
    /\ output_file = [open |-> FALSE, bad |-> FALSE, rows |-> <<>>]
    /\ returned = -1
    /\ taken = <<>>
    /\ write_may_fail = FALSE
    /\ launcher = NoLaunch
    /\ bell = NoBellCall
    /\ combinations = NoCombinations

\* choice 1: an error in the response ends the program, else the parsed
\* record goes to find_valid_partitions
MainFetched ==
    /\ pc = "main"
    /\ \E json_response \in JsonResponses :
          IF json_response.has_error
          THEN pc' = "exit" /\ UNCHANGED tx_data
          ELSE /\ tx_data' = parse_transaction_data(json_response)
               /\ pc' = "start"
    /\ UNCHANGED <<launcher, write_may_fail, bell, combinations, chunk_size,
                   num_threads, input_generator, output_generator,
                   input_chunk, output_chunk, workers, valid_count,
                   pruned_count, checked_count, pairs_processed, file_mutex,
                   output_file, returned, taken>>

\* choice 2: the record typed at the prompts goes to find_valid_partitions
MainCustom ==
    /\ pc = "main"
    /\ \E num_inputs \in 0..MaxN : \E num_outputs \in 0..MaxN :
          \E in_values \in TypedInputs(prompted_count(num_inputs)) :
              \E out_values \in TypedOutputs(prompted_count(num_outputs)) :
                  tx_data' = create_custom_transaction(in_values, out_values)
    /\ pc' = "start"
    /\ UNCHANGED <<launcher, write_may_fail, bell, combinations, chunk_size,
                   num_threads, input_generator, output_generator,
                   input_chunk, output_chunk, workers, valid_count,
                   pruned_count, checked_count, pairs_processed, file_mutex,
                   output_file, returned, taken>>

NextMain == MainFetched \/ MainCustom \/ Next

\* the program keeps running: the dispatcher and the batch it calls take
\* their next step whenever they have one
SpecMain == InitMain /\ [][NextMain]_vars /\ WF_vars(NextMain)

(***************************************************************************)
(* Reference notions for the engine's claims, computed from the amounts    *)
(* and from sets, not through the engine's own operators.                  *)
(***************************************************************************)

InputCount == Len(tx_data.input_ids)

OutputCount == Len(tx_data.output_ids)

InputAmount(i) == tx_data.inputs[tx_data.input_ids[i + 1]]

OutputAmount(i) == tx_data.outputs[tx_data.output_ids[i + 1]]

RECURSIVE SetSum(_, _)
SetSum(amount(_), S) ==
    IF S = {} THEN 0
    ELSE LET x == CHOOSE x \in S : TRUE
         IN amount(x) + SetSum(amount, S \ {x})

Bijections(P, Q) ==
    {f \in [P -> Q] : \A A \in P : \A B \in P : A # B => f[A] # f[B]}

\* the triples (Pi, Po, sigma) of the specification: partitions of all inputs
\* and of all outputs with the same number of blocks, and a bijection sigma
\* with sum(sigma(A)) <= sum(A) for every input block A
ReferenceMappings ==
    UNION {UNION {{<<P, Q, f>> :
                      f \in {g \in Bijections(P, Q) :
                                \A A \in P : SetSum(OutputAmount, g[A])
                                               <= SetSum(InputAmount, A)}} :
                  Q \in {R \in SetPartitions(OutputCount) :
                            Cardinality(R) = Cardinality(P)}} :
           P \in SetPartitions(InputCount)}

\* the permutations of 0..k-1, as index vectors
IndexPermutations(k) ==
    {s \in [1..k -> 0..(k - 1)] : \A i \in 1..k : \A j \in 1..k : i # j => s[i] # s[j]}

RECURSIVE Factorial(_)
Factorial(k) == IF k = 0 THEN 1 ELSE k * Factorial(k - 1)

LexLess(a, b) ==
    \E i \in 1..Len(a) : a[i] < b[i] /\ \A j \in 1..(i - 1) : a[j] = b[j]

\* sigma satisfies the per-block inequalities for the pair
Satisfies(pair, sigma) ==
    \A b \in 1..Len(pair[1]) :
        SetSum(OutputAmount, Range(pair[2][sigma[b] + 1]))
            <= SetSum(InputAmount, Range(pair[1][b]))

Rows == output_file.rows

SummaryRows == {i \in 1..Len(Rows) : Rows[i].kind = "summary"}

DetailRows == {i \in 1..Len(Rows) : Rows[i].kind = "detail"}

MappingRows == SummaryRows \cup DetailRows

\* the run ended through Finish (the file had been opened)
Completed == pc = "done" /\ Rows # <<>>

(***************************************************************************)
(* The claims.                                                             *)
(***************************************************************************)

\* C1: calling next_chunk(size) on a fresh generator over 0..n-1 (n >= 1,
\* size >= 1) until has_more() is false returns, over all chunks together,
\* every set partition of 0..n-1 exactly once: B(n) in total, none
\* duplicated, none missing.
C1_EveryPartitionExactlyOnce ==
    (pc = "generator" /\ input_generator.n >= 1 /\ ~has_more(input_generator)) =>
        LET all == Flatten(taken)
            parts == SetPartitions(input_generator.n)
        IN /\ Len(all) = Cardinality(parts)
           /\ \A P \in parts :
                 Cardinality({i \in 1..Len(all) : AsSet(all[i]) = P}) = 1

\* C2: every IndexPartition any next_chunk call returns is a partition of
\* the whole index set 0..n-1: each index in exactly one block, no block
\* empty, none covering only a prefix of the indices.
C2_ReturnedArePartitions ==
    (pc = "generator" /\ input_generator.n >= 1) =>
        \A c \in 1..Len(taken) : \A i \in 1..Len(taken[c]) :
            IsPartitionOf(taken[c][i], input_generator.n)

\* a block is in increasing order / the blocks are ordered by their smallest
\* (that is, first) element
IsCanonical(partition) ==
    /\ \A b \in 1..Len(partition) :
          \A i \in 1..Len(partition[b]) : \A j \in 1..Len(partition[b]) :
              i < j => partition[b][i] < partition[b][j]
    /\ \A b \in 1..Len(partition) : \A c \in 1..Len(partition) :
          (b < c /\ partition[b] # <<>> /\ partition[c] # <<>>) =>
              partition[b][1] < partition[c][1]

\* C11: every partition the generator returns is in canonical form: within
\* each block the indices are strictly increasing, and the blocks are ordered
\* by increasing smallest element.
C11_CanonicalForm ==
    pc = "generator" =>
        \A c \in 1..Len(taken) : \A i \in 1..Len(taken[c]) :
            IsCanonical(taken[c][i])

\* a chunk holding a partition with two blocks, one of them of two indices
C11_Witness ==
    /\ pc = "generator"
    /\ \E c \in 1..Len(taken) : \E i \in 1..Len(taken[c]) :
          /\ Len(taken[c][i]) >= 2
          /\ \E b \in 1..Len(taken[c][i]) : Len(taken[c][i][b]) >= 2

\* the Bell numbers B(0) .. B(8)
BellTable == <<1, 1, 2, 5, 15, 52, 203, 877, 4140>>

\* C12: total_partitions() of a generator over n elements equals the value
\* compute_bell_number(n) returns from its Bell triangle, which for
\* n = 0..8 is 1, 1, 2, 5, 15, 52, 203, 877, 4140.
C12_TotalIsBellNumber ==
    pc = "constructed" =>
        /\ total_partitions(input_generator) = bell.result
        /\ bell.n <= 8 => bell.result = BellTable[bell.n + 1]

\* both computed for 8 elements
C12_Witness ==
    /\ pc = "constructed"
    /\ bell.n = 8
    /\ total_partitions(input_generator) = 4140

\* C10: next_chunk(size) returns exactly min(size, total() - number already
\* returned) partitions, none of them returned by an earlier call.
C10_NextChunkAdvances ==
    (pc = "generator" /\ input_generator.n >= 1) =>
        \A c \in 1..Len(taken) :
            LET before == Flatten(SubSeq(taken, 1, c - 1))
            IN /\ Len(taken[c]) =
                      Min(chunk_size, total_partitions(input_generator) - Len(before))
               /\ \A i \in 1..Len(taken[c]) : \A j \in 1..Len(before) :
                      taken[c][i] # before[j]

\* C3: with the default chunk size, the number find_valid_partitions returns
\* and the number of mappings written both equal the number of triples of
\* the unpruned brute-force reference.
C3_CountEqualsBruteForce ==
    Completed =>
        /\ returned = Cardinality(ReferenceMappings)
        /\ Cardinality(SummaryRows) = Cardinality(ReferenceMappings)

C3_Witness ==
    /\ Completed
    /\ chunk_size = DefaultChunkSize
    /\ returned >= 2
    /\ pruned_count >= 1
    /\ InputCount = MaxN

\* C4: the pruner has no false negatives: a pair with equal block count k
\* that could_have_valid_mapping rejected has no permutation sigma of 0..k-1
\* with sum(output block sigma(i)) <= sum(input block i) for all i.
\* (Stated of the pair a worker has just given its verdict on; every pruned
\* pair is that pair in the state its verdict is given.)
C4_PrunerSound ==
    \A t \in Slots :
        LET i == Len(workers[t].verdicts)
        IN (i >= 1 /\ workers[t].verdicts[i] = "pruned") =>
               LET pair == workers[t].batch[i]
               IN /\ Len(pair[1]) = Len(pair[2])
                  /\ \A sigma \in IndexPermutations(Len(pair[1])) : ~Satisfies(pair, sigma)

C4_Witness ==
    \E t \in Slots :
        LET i == Len(workers[t].verdicts)
        IN /\ i >= 1
           /\ workers[t].verdicts[i] = "pruned"
           /\ Len(workers[t].batch[i][1]) >= 2

\* C5: for a pair with k blocks each, check_all_permutations visits all k!
\* permutations in lexicographic order starting from the identity, and emits
\* a mapping for exactly the permutations that satisfy the per-block
\* inequalities, each once, also when several have identical block sums.
C5_AllPermutationsLexicographic ==
    \A t \in Slots :
        workers[t].pc = "checked" =>
            LET w == workers[t]
                pair == w.batch[w.pos]
                k == Len(pair[1])
            IN /\ Len(w.visited) = Factorial(k)
               /\ w.visited[1] = [i \in 1..k |-> i - 1]
               /\ \A i \in 1..Len(w.visited) : w.visited[i] \in IndexPermutations(k)
               /\ \A i \in 1..(Len(w.visited) - 1) :
                     LexLess(w.visited[i], w.visited[i + 1])
               /\ w.emitted = SelectSeq(w.visited, LAMBDA sigma : Satisfies(pair, sigma))

C5_Witness ==
    \E t \in Slots :
        /\ workers[t].pc = "checked"
        /\ Len(workers[t].batch[workers[t].pos][1]) = 3
        /\ Len(workers[t].emitted) >= 2

\* C6: in every interleaving of the workers, no row carrying a different
\* Mapping_ID lies between two rows carrying the same Mapping_ID.
C6_RowsContiguous ==
    \A i \in MappingRows : \A l \in MappingRows :
        (i < l /\ Rows[i].Mapping_ID = Rows[l].Mapping_ID) =>
            \A j \in i..l : Rows[j].Mapping_ID = Rows[i].Mapping_ID

\* one worker is writing a mapping while another waits for the file
C6_Witness ==
    \E t \in Slots : \E u \in Slots :
        /\ workers[t].pc = "write"
        /\ workers[u].pc = "lock"
        /\ Len(workers[t].csv) >= 2
        /\ Cardinality(SummaryRows) >= 2

\* C7: when a run completes, the Mapping_IDs written are exactly 1..valid_count,
\* the returned value, each id carried by exactly one mapping.
C7_DenseIds ==
    Completed =>
        /\ {Rows[i].Mapping_ID : i \in SummaryRows} = 1..returned
        /\ Cardinality(SummaryRows) = returned
        /\ {Rows[i].Mapping_ID : i \in DetailRows} \subseteq 1..returned

C7_Witness ==
    /\ Completed
    /\ num_threads >= 2
    /\ returned >= 3

\* the detail rows written for mapping id
DetailsOf(id) == SelectSeq(Rows, LAMBDA r : r.kind = "detail" /\ r.Mapping_ID = id)

\* all rows of mapping id are in the file
FullyWritten(id) ==
    \E i \in SummaryRows :
        Rows[i].Mapping_ID = id /\ Rows[i].Group_Count = Len(DetailsOf(id))

\* C8: for every emitted mapping, the detail rows' input values sum to the
\* total of all inputs, their output values to the total of all outputs, and
\* their differences to the fee, for every n, m >= 1 and every chunk size.
C8_Conservation ==
    \A id \in {Rows[i].Mapping_ID : i \in SummaryRows} :
        FullyWritten(id) =>
            LET d == DetailsOf(id)
            IN /\ SeqSum([i \in 1..Len(d) |-> d[i].Input_Value])
                     = total_input_value(tx_data)
               /\ SeqSum([i \in 1..Len(d) |-> d[i].Output_Value])
                     = total_output_value(tx_data)
               /\ SeqSum([i \in 1..Len(d) |-> d[i].Difference]) = get_fee(tx_data)

\* C9: every detail row of every emitted mapping has
\* output_value <= input_value.
C9_RowInequality ==
    \A i \in DetailRows : Rows[i].Output_Value <= Rows[i].Input_Value

C9_Witness ==
    \E i \in DetailRows :
        /\ Rows[i].Output_Value < Rows[i].Input_Value
        /\ Rows[i].Group_Number >= 1


\* C13: with no inputs or no outputs the engine has nothing to analyze: the
\* run terminates (has_more() of every generator eventually becomes false)
\* and returns 0 valid mappings.
C13_EmptySideTerminates ==
    [](((pc = "start") /\ (InputCount = 0 \/ OutputCount = 0))
          => <>((pc = "done") /\ (returned = 0)))


\* C14: after any sequence of add_input / add_output calls no id occurs
\* twice in input_ids (resp. output_ids) and the sequence has as many entries
\* as the inputs (resp. outputs) map has keys, a call with an id already
\* present having left the record unchanged.
C14_IdsUniqueAndMatchMap ==
    pc = "record" =>
        /\ \A i \in 1..Len(tx_data.input_ids) : \A j \in 1..Len(tx_data.input_ids) :
              i # j => tx_data.input_ids[i] # tx_data.input_ids[j]
        /\ Len(tx_data.input_ids) = Cardinality(DOMAIN tx_data.inputs)
        /\ \A i \in 1..Len(tx_data.output_ids) : \A j \in 1..Len(tx_data.output_ids) :
              i # j => tx_data.output_ids[i] # tx_data.output_ids[j]
        /\ Len(tx_data.output_ids) = Cardinality(DOMAIN tx_data.outputs)


\* C15: no input or output with an amount <= 0 or with an empty id is stored
\* in the record handed to the engine, whether it was typed at the prompts
\* or fetched (its value retrieved or not).
C15_NoNonPositiveAmountStored ==
    pc \notin {"main", "exit"} =>
        /\ \A id \in DOMAIN tx_data.inputs : id # "" /\ tx_data.inputs[id] > 0
        /\ \A id \in DOMAIN tx_data.outputs : id # "" /\ tx_data.outputs[id] > 0


\* C16: a failure of the output sink aborts the run: when the file cannot be
\* opened the engine returns 0 with no pair processed, and once a write has
\* failed no further mapping is counted and no further pair is pruned, so
\* that the count returned is the one accumulated up to the failure.
C16_SinkFailureAborts ==
    /\ []((pc = "done" /\ Rows = <<>>) => (returned = 0 /\ pairs_processed = 0))
    /\ [][output_file.bad =>
            /\ valid_count' = valid_count
            /\ pruned_count' = pruned_count]_vars


\* the non-empty subsets of the ids of a side
NonEmptySubsets(ids) == (SUBSET Range(ids)) \ {{}}

InputAmountOf(id) == tx_data.inputs[id]

OutputAmountOf(id) == tx_data.outputs[id]

\* the pairs (A, B) of the specification
ReferenceCombinations ==
    {ab \in NonEmptySubsets(tx_data.input_ids) \X NonEmptySubsets(tx_data.output_ids) :
        SetSum(OutputAmountOf, ab[2]) <= SetSum(InputAmountOf, ab[1])}

CombinationRows == SelectSeq(Rows, LAMBDA r : r.kind = "combination")

\* C17: subset-pairs mode writes exactly one row for each pair (A, B) of a
\* non-empty subset A of the inputs and a non-empty subset B of the outputs
\* with sum(B) <= sum(A), and no other row; generate_subsets yields each of
\* the 2^n - 1 non-empty subsets exactly once; the Combination_IDs are
\* 1, 2, ..., count in file order, count being the returned value.
C17_OneRowPerValidPair ==
    (pc = "done" /\ Rows # <<>> /\ combinations # NoCombinations) =>
        LET rows == CombinationRows
        IN /\ Len(Rows) = Len(rows) + 1
           /\ Rows[1] = CombinationsHeader[1]
           /\ Len(rows) = returned
           /\ \A k \in 1..Len(rows) : rows[k].Combination_ID = k
           /\ {<<Range(rows[k].Input_Subset), Range(rows[k].Output_Subset)>> :
                   k \in 1..Len(rows)} = ReferenceCombinations
           /\ Len(rows) = Cardinality(ReferenceCombinations)
           /\ Len(combinations.input_subsets) = Pow2(InputCount) - 1
           /\ {Range(combinations.input_subsets[k]) :
                   k \in 1..Len(combinations.input_subsets)}
                 = NonEmptySubsets(tx_data.input_ids)
           /\ Len(combinations.output_subsets) = Pow2(OutputCount) - 1
           /\ {Range(combinations.output_subsets[k]) :
                   k \in 1..Len(combinations.output_subsets)}
                 = NonEmptySubsets(tx_data.output_ids)

\* a finished run that wrote some pairs and rejected others
C17_Witness ==
    /\ pc = "done"
    /\ combinations # NoCombinations
    /\ InputCount >= 2 /\ OutputCount >= 2
    /\ returned >= 2
    /\ returned < Len(combinations.input_subsets) * Len(combinations.output_subsets)


\* the mappings whose summary row and all detail rows are in the file
FullyWrittenIds == {id \in {Rows[i].Mapping_ID : i \in SummaryRows} : FullyWritten(id)}

\* C18: the counters valid, pruned, checked and pairs_processed never
\* decrease, and at every reachable state pruned + checked <= pairs_processed
\* and the number of mappings fully written to the file is at most valid.
C18_CountersMonotonicConsistent ==
    /\ [](/\ pruned_count + checked_count <= pairs_processed
          /\ Cardinality(FullyWrittenIds) <= valid_count)
    /\ [][/\ valid_count' >= valid_count
          /\ pruned_count' >= pruned_count
          /\ checked_count' >= checked_count
          /\ pairs_processed' >= pairs_processed]_vars

\* two workers under way: one has finished its pair, the other's pair is
\* pending with a mapping counted whose rows are not all written yet
C18_Witness ==
    /\ num_threads >= 2
    /\ pruned_count + checked_count >= 1
    /\ pruned_count + checked_count < pairs_processed
    /\ Cardinality(FullyWrittenIds) < valid_count
    /\ Cardinality(FullyWrittenIds) >= 1


\* the least of a non-empty set of index vectors, lexicographically
LexMin(S) == CHOOSE a \in S : \A b \in S \ {a} : LexLess(a, b)

RECURSIVE SortLex(_)
SortLex(S) == IF S = {} THEN <<>> ELSE <<LexMin(S)>> \o SortLex(S \ {LexMin(S)})

\* every partition of 0..n-1, in the generator's order
AllPartitions(n) == next_chunk(PartitionGenerator(n), DefaultChunkSize).result

RECURSIVE ExpectedFromPermutations(_, _, _, _)
\* the rows of the pair's satisfying permutations from the p-th on, the
\* first of them numbered count + 1; [rows, count]
ExpectedFromPermutations(pair, perms, p, count) ==
    IF p > Len(perms) THEN [rows |-> <<>>, count |-> count]
    ELSE IF Satisfies(pair, perms[p])
    THEN LET rest == ExpectedFromPermutations(pair, perms, p + 1, count + 1)
         IN [rows |-> format_mapping_for_csv(tx_data, pair[1],
                          permuted_output(pair[2], perms[p]), perms[p],
                          input_mapper, output_mapper, count + 1) \o rest.rows,
             count |-> rest.count]
    ELSE ExpectedFromPermutations(pair, perms, p + 1, count)

RECURSIVE ExpectedFromPairs(_, _, _)
ExpectedFromPairs(pairs, x, count) ==
    IF x > Len(pairs) THEN <<>>
    ELSE LET here == ExpectedFromPermutations(pairs[x],
                         SortLex(IndexPermutations(Len(pairs[x][1]))), 1, count)
         IN here.rows \o ExpectedFromPairs(pairs, x + 1, here.count)

\* the file a single-worker run writes, as a function of the transaction only
ExpectedFile ==
    HeaderRows \o
    ExpectedFromPairs(make_partition_pairs(AllPartitions(InputCount),
                                           AllPartitions(OutputCount)), 1, 0)

\* C19: two single-worker runs on the same transaction write identical CSV
\* output, row for row, Mapping_IDs included: the file of every completed
\* run is the one value ExpectedFile, which depends on the transaction alone.
C19_SingleWorkerDeterministic ==
    (Completed /\ num_threads = 1) => Rows = ExpectedFile

\* a completed single-worker run with several pairs checked and mappings written
C19_Witness ==
    /\ Completed
    /\ num_threads = 1
    /\ checked_count >= 2
    /\ returned >= 3


\* scenario S3: two inputs and two outputs of 1.0 BTC each, that is of two
\* units of the model, under the ids create_custom_transaction gives them
IsS3 == tx_data = create_custom_transaction(<<2, 2>>, <<2, 2>>)

\* how many mappings with k groups were written
MappingsWithGroups(k) == Cardinality({i \in SummaryRows : Rows[i].Group_Count = k})

\* the pairings <<input group, output group>> of the mapping with this id
PairingOf(id) ==
    {<<Rows[i].Input_Group, Rows[i].Output_Group>> :
        i \in {d \in DetailRows : Rows[d].Mapping_ID = id}}

\* the pairings of the written mappings with two groups
S3TwoGroupPairings ==
    {PairingOf(Rows[i].Mapping_ID) : i \in {s \in SummaryRows : Rows[s].Group_Count = 2}}

S3ExpectedPairings ==
    {{<< <<"input_0">>, <<"output_0">> >>, << <<"input_1">>, <<"output_1">> >>},
     {<< <<"input_0">>, <<"output_1">> >>, << <<"input_1">>, <<"output_0">> >>}}

\* C20 as stated: on scenario S3 the engine finds 4 valid mappings, two
\* with k = 1 and two with k = 2 (in0-out0, in1-out1 and in0-out1, in1-out0).
C20_S3FourMappings ==
    (Completed /\ IsS3) =>
        /\ returned = 4
        /\ MappingsWithGroups(1) = 2
        /\ MappingsWithGroups(2) = 2
        /\ S3TwoGroupPairings = S3ExpectedPairings

\* C20 as amended: on scenario S3 the engine finds 3 valid mappings, one
\* with k = 1 (both inputs to both outputs) and two with k = 2
\* (in0-out0, in1-out1 and in0-out1, in1-out0).
C20_S3ThreeMappings ==
    (Completed /\ IsS3) =>
        /\ returned = 3
        /\ MappingsWithGroups(1) = 1
        /\ MappingsWithGroups(2) = 2
        /\ S3TwoGroupPairings = S3ExpectedPairings

\* a completed run on S3
C20_Witness == Completed /\ IsS3 /\ returned >= 1


\* scenario S5: inputs of 2.0 and 3.0 BTC, outputs of 1.0 and 4.0 BTC
IsS5 == tx_data = ScenarioS5

\* the pairings of the written mappings with two groups, scenario S5
S5TwoGroupPairings ==
    {PairingOf(Rows[i].Mapping_ID) : i \in {s \in SummaryRows : Rows[s].Group_Count = 2}}

\* C21 as stated: on scenario S5 the engine finds 2 valid mappings, the
\* k = 1 mapping and, with k = 2, the permutation in0-out0, in1-out1.
C21_S5TwoMappings ==
    (Completed /\ IsS5) =>
        /\ returned = 2
        /\ MappingsWithGroups(1) = 1
        /\ S5TwoGroupPairings =
              {{<< <<"input_0">>, <<"output_0">> >>, << <<"input_1">>, <<"output_1">> >>}}

\* C21 as amended: on scenario S5 the engine finds 1 valid mapping, the
\* k = 1 mapping (5 >= 5); the pair of singleton partitions is pruned, since
\* neither permutation fits (in1 = 3 < out1 = 4 and in0 = 2 < out1 = 4).
C21_S5OneMapping ==
    (Completed /\ IsS5) =>
        /\ returned = 1
        /\ MappingsWithGroups(1) = 1
        /\ S5TwoGroupPairings = {}
        /\ pruned_count = 1
        /\ Cardinality(ReferenceMappings) = 1

\* a completed run on S5 that wrote its mapping
C21_Witness == Completed /\ IsS5 /\ Cardinality(SummaryRows) = 1 /\ pairs_processed = 2


\* the k = 1 mapping: all inputs in one group, all outputs in the other
IsWholeMapping(id) ==
    PairingOf(id) = {<<tx_data.input_ids, tx_data.output_ids>>}

\* C22: for n, m >= 1 a run that opened its file returns 0 exactly when the
\* outputs total more than the inputs; then every candidate pair was pruned,
\* and otherwise the k = 1 mapping (all inputs to all outputs) was written.
C22_ZeroIffOutputsExceed ==
    (Completed /\ InputCount >= 1 /\ OutputCount >= 1) =>
        LET total_in == SetSum(InputAmount, 0..(InputCount - 1))
            total_out == SetSum(OutputAmount, 0..(OutputCount - 1))
        IN /\ (returned = 0) <=> (total_out > total_in)
           /\ total_out > total_in =>
                 (pruned_count = pairs_processed /\ checked_count = 0)
           /\ total_in >= total_out =>
                 \E i \in SummaryRows :
                     Rows[i].Group_Count = 1 /\ IsWholeMapping(Rows[i].Mapping_ID)


\* every pair process_partition_chunks can build for the transaction
CandidatePairs(tx) ==
    make_partition_pairs(AllPartitions(Len(tx.input_ids)),
                         AllPartitions(Len(tx.output_ids)))

\* the pruner lets the pair through and the mapping checker accepts none of
\* the permutations of its output blocks
PassesPrunerWithoutMapping(tx, pair) ==
    /\ could_have_valid_mapping(tx, pair[1], pair[2], ElementMapper(tx.input_ids),
                                ElementMapper(tx.output_ids))
    /\ \A sigma \in IndexPermutations(Len(pair[1])) :
          ~is_valid_mapping(tx, pair[1], permuted_output(pair[2], sigma),
                            ElementMapper(tx.input_ids), ElementMapper(tx.output_ids))

\* C23 as stated: the pruner's test is not sufficient: some transaction has
\* a pair with equal block count that could_have_valid_mapping lets through
\* while no permutation satisfies the per-block inequalities.  (Stated where
\* a run starts, of all the transactions a run can start on.)
C23_PrunerNotSufficient ==
    pc = "start" =>
        \E tx \in Transactions(Sizes) \cup ScenarioTransactions :
            \E x \in 1..Len(CandidatePairs(tx)) :
                PassesPrunerWithoutMapping(tx, CandidatePairs(tx)[x])

\* C23 as amended: the pruner's test is necessary and sufficient: every pair
\* could_have_valid_mapping lets through has a permutation satisfying the
\* per-block inequalities (stated of every candidate pair of the transaction
\* a run starts on), so every pair counted as checked contributes at least
\* one mapping.
C23_PrunerExact ==
    /\ pc = "start" =>
          \A x \in 1..Len(CandidatePairs(tx_data)) :
              ~PassesPrunerWithoutMapping(tx_data, CandidatePairs(tx_data)[x])
    /\ \A t \in Slots :
          workers[t].pc = "checked" =>
              /\ workers[t].emitted # <<>>
              /\ \E sigma \in IndexPermutations(Len(workers[t].batch[workers[t].pos][1])) :
                    Satisfies(workers[t].batch[workers[t].pos], sigma)

\* a pair of three groups each has been checked: the identity was refused,
\* another permutation accepted, and an earlier pair was pruned
C23_Witness ==
    \E t \in Slots :
        /\ workers[t].pc = "checked"
        /\ Len(workers[t].batch[workers[t].pos][1]) = 3
        /\ workers[t].emitted # <<>>
        /\ workers[t].emitted[1] # workers[t].visited[1]
        /\ pruned_count >= 1


\* a call of process_partition_batch is under way in slot t
Running(t) == workers[t].pc \notin {"idle", "done"}

\* C24: while a worker launched for the current chunk pair is running, the
\* dispatcher takes no chunk from either generator and does not close the
\* file, and no step of a worker touches a generator: the generators, the
\* chunks and the file's being open stay as they are until every worker has
\* finished; wherever the dispatcher is outside the join, no worker exists.
C24_ChunkBoundaryJoin ==
    /\ [](pc # "join" => \A t \in Slots : workers[t] = NoWorker)
    /\ [][(\E t \in Slots : Running(t)) =>
             /\ input_generator' = input_generator
             /\ output_generator' = output_generator
             /\ input_chunk' = input_chunk
             /\ output_chunk' = output_chunk
             /\ output_file'.open = output_file.open
             /\ pc' = pc]_vars

\* the dispatcher waits: the first future is ready, the second worker is
\* still at its pair
C24_Witness ==
    /\ pc = "join"
    /\ num_threads >= 2
    /\ workers[1].pc = "done"
    /\ Running(2)
    /\ pruned_count + checked_count >= 1


\* ceil(P / W)
CeilDiv(P, W) == CHOOSE c \in 0..P : c * W >= P /\ (c - 1) * W < P

\* C25: slicing P >= 2 pairs over W >= 2 workers gives every pair to exactly
\* one slice: slice i is [i*ceil(P/W), min((i+1)*ceil(P/W), P)), the slices
\* are non-empty, pairwise disjoint, at most W, and together all P pairs.
C25_SlicesPartitionThePairs ==
    (pc = "slices" /\ launcher.at = "launched") =>
        LET P == Len(launcher.partition_pairs)
            W == launcher.num_threads
            slices == launcher.futures
        IN /\ Len(slices) <= W
           /\ \A s \in 1..Len(slices) :
                 /\ slices[s] # <<>>
                 /\ Range(slices[s]) =
                       {x \in 1..P : /\ (s - 1) * CeilDiv(P, W) <= x - 1
                                     /\ x - 1 < Min(s * CeilDiv(P, W), P)}
           /\ \A s \in 1..Len(slices) : \A u \in 1..Len(slices) :
                 s # u => Range(slices[s]) \cap Range(slices[u]) = {}
           /\ \A x \in 1..P :
                 Cardinality({su \in Places(slices) : slices[su[1]][su[2]] = x}) = 1

\* five pairs among four threads: three slices, the last of one pair, and
\* the loop left by its break
C25_Witness ==
    /\ pc = "slices"
    /\ launcher.at = "launched"
    /\ Len(launcher.partition_pairs) = 5
    /\ launcher.num_threads = 4
    /\ Len(launcher.futures) = 3
    /\ Len(launcher.futures[3]) = 1


\* the rows from the summary row at s to the last of its detail rows that
\* is in the file
WrittenDetails(s) ==
    {j \in 1..Rows[s].Group_Count : s + j <= Len(Rows)}

\* C26: a mapping is one summary row followed by exactly k detail rows, k
\* being the summary's Group_Count and the block count of both partitions;
\* the detail rows carry Group_Number 0 .. k-1 in that order and the
\* summary's Mapping_ID; detail row i pairs input block i with block
\* sigma(i) of the original output partition.
C26_SummaryThenDetails ==
    \* the rows formatted for the permutation `indices` of the worker's pair
    /\ \A t \in Slots :
          workers[t].pc = "lock" =>
              LET w == workers[t]
                  pair == w.batch[w.pos]
                  k == Len(pair[1])
              IN /\ Len(pair[2]) = k
                 /\ Len(w.csv) = k + 1
                 /\ w.csv[1].kind = "summary"
                 /\ w.csv[1].Group_Count = k
                 /\ w.csv[1].Mapping_ID = w.current_count
                 /\ \A i \in 1..k :
                       /\ w.csv[i + 1].kind = "detail"
                       /\ w.csv[i + 1].Mapping_ID = w.current_count
                       /\ w.csv[i + 1].Group_Number = i - 1
                       /\ w.csv[i + 1].Input_Group =
                             [x \in 1..Len(pair[1][i]) |->
                                 tx_data.input_ids[pair[1][i][x] + 1]]
                       /\ w.csv[i + 1].Output_Group =
                             LET block == pair[2][w.indices[i] + 1]
                             IN [x \in 1..Len(block) |->
                                    tx_data.output_ids[block[x] + 1]]
    \* the rows as they lie in the file
    /\ Len(Rows) >= 3 => Rows[3].kind = "summary"
    /\ \A s \in SummaryRows :
          /\ \A j \in WrittenDetails(s) :
                /\ Rows[s + j].kind = "detail"
                /\ Rows[s + j].Mapping_ID = Rows[s].Mapping_ID
                /\ Rows[s + j].Group_Number = j - 1
          /\ s + Rows[s].Group_Count + 1 <= Len(Rows) =>
                Rows[s + Rows[s].Group_Count + 1].kind = "summary"
          /\ Completed => s + Rows[s].Group_Count <= Len(Rows)

\* two workers have written: the file holds a mapping of two groups made
\* with the permutation that swaps the output blocks
C26_Witness ==
    /\ Completed
    /\ num_threads >= 2
    /\ \E s \in SummaryRows :
          /\ Rows[s].Group_Count = 2
          /\ s + 2 <= Len(Rows)
          /\ Rows[s + 1].Output_Group = <<"output_1">>
          /\ Rows[s + 2].Output_Group = <<"output_0">>


\* C27: for n >= 1 and any chunk size >= 1, current_progress() never exceeds
\* total_partitions(), and the two are equal exactly when has_more() is false.
C27_ProgressWellFormed ==
    (pc = "generator" /\ input_generator.n >= 1) =>
        /\ current_progress(input_generator) <= total_partitions(input_generator)
        /\ (current_progress(input_generator) = total_partitions(input_generator))
              <=> ~has_more(input_generator)


\* C28: only pairs whose two partitions have the same block count are
\* handed to workers, and when a run completes pairs_processed equals the
\* announced estimate, the sum over k of S(n,k) * S(m,k), for every
\* n, m >= 1 and every chunk size.
C28_PairsProcessedIsEstimate ==
    /\ \A t \in Slots : \A x \in 1..Len(workers[t].batch) :
          Len(workers[t].batch[x][1]) = Len(workers[t].batch[x][2])
    /\ (Completed /\ InputCount >= 1 /\ OutputCount >= 1) =>
          /\ pairs_processed =
                total_compatible_pairs(input_mapper.elements, output_mapper.elements)
          /\ pairs_processed =
                Cardinality({pq \in SetPartitions(InputCount) \X SetPartitions(OutputCount) :
                                Cardinality(pq[1]) = Cardinality(pq[2])})


\* C29: at every chunk boundary, when the workers of a chunk pair have been
\* joined, and at completion, pruned_count + checked_count = pairs_processed;
\* a worker that has finished has given each pair of its batch one verdict,
\* pruned or checked, in every interleaving.
C29_EveryPairCountedOnce ==
    /\ pc \in {"inner", "outer", "finish", "done"} =>
          pruned_count + checked_count = pairs_processed
    /\ (pc = "join" /\ \A t \in Slots : ~Running(t)) =>
          pruned_count + checked_count = pairs_processed
    /\ \A t \in Slots :
          workers[t].pc = "done" =>
              /\ Len(workers[t].verdicts) = Len(workers[t].batch)
              /\ \A x \in 1..Len(workers[t].verdicts) :
                    workers[t].verdicts[x] \in {"pruned", "checked"}

\* the chunk boundary after two workers shared a chunk pair's two pairs
C29_Witness ==
    /\ pc = "inner"
    /\ num_threads >= 2
    /\ chunk_size >= 2
    /\ pairs_processed >= 2
    /\ checked_count >= 2
    /\ valid_count >= 3


\* C30: for n, m >= 1 and every chunk size >= 1 a run terminates under fair
\* scheduling: eventually has_more() is false for both generators, no
\* worker is left, the file is closed and valid_count has been returned.
C30_RunTerminates ==
    []((pc = "start" /\ InputCount >= 1 /\ OutputCount >= 1) =>
          <>( /\ pc = "done"
              /\ ~has_more(input_generator)
              /\ ~has_more(output_generator)
              /\ \A t \in Slots : workers[t] = NoWorker
              /\ ~output_file.open
              /\ returned = valid_count ))

\* a run of several chunk pairs, with a chunk size below the number of
\* partitions, has ended and returned the mappings it wrote
C30_Witness ==
    /\ Completed
    /\ num_threads >= 2
    /\ chunk_size < DefaultChunkSize
    /\ pairs_processed >= 2
    /\ returned >= 3
    /\ ~output_file.open

=============================================================================
